---- MODULE Spec2Model ----
(***************************************************************************)
(* Model of the RNE roster reconciliation service:                         *)
(*   - rne_parser.py   process_file, parse_all_rne_datasets                *)
(*   - rne_differ.py   compute_diff, load_state, save_state                *)
(*   - sync_rne.py     send_to_webhook, main (one reconciliation cycle)    *)
(*   - api.py          sync_status / status_lock, trigger_sync,            *)
(*                     trigger_batch_sync, run_sync_task, run_batch_task   *)
(*                     get_commune_elus, scrape_url_endpoint               *)
(*                                                                         *)
(* A worker thread of the web server handles one trigger request and then  *)
(* runs the background task that request scheduled.  Steps are atomic      *)
(* between two accesses to shared state (the status dictionary under       *)
(* status_lock, the state file, the extract directory, the webhook).       *)
(***************************************************************************)
EXTENDS Integers, Sequences, FiniteSets, TLC

\* ------------------------------------------------------------------ bounds
NumThreads == 2       \* worker threads serving trigger requests
MaxCommunes == 101    \* largest number of communes in a published extract
MaxDiffCommunes == 2  \* commune codes of the snapshots given to compute_diff
MaxRows == 2          \* rows of an extract file given to process_file

\* ------------------------------------------------------- program constants
CHUNK_SIZE == 50      \* sync_rne.py: CHUNK_SIZE

Threads == 1..NumThreads

\* ------------------------------------------------------------- data model
\* A snapshot (the "state" dictionary) maps a commune code to
\*   [nom_commune, elus], elus maps an official key to [nom, prenom, postes].
\* Commune codes are modelled as positive integers.
EmptyState == << >>

Range(s) == { s[k] : k \in DOMAIN s }

\* Iteration order of a set of official keys: some fixed order of its
\* elements.
RECURSIVE SetToSeq(_)
SetToSeq(S) ==
    IF S = {} THEN << >>
    ELSE LET x == CHOOSE y \in S : TRUE
         IN  << x >> \o SetToSeq(S \ {x})

\* Alphabetical order of the role labels used by the model (sorted()).
PosteOrder == << "Adjoint au maire", "Conseiller municipal", "Maire" >>

PosteRank(p) == CHOOSE k \in 1..Len(PosteOrder) : PosteOrder[k] = p

RECURSIVE SortedPostes(_)
SortedPostes(S) ==
    IF S = {} THEN << >>
    ELSE LET m == CHOOSE p \in S : \A q \in S : PosteRank(p) <= PosteRank(q)
         IN  << m >> \o SortedPostes(S \ {m})

\* f"{prenom} {nom}"
EluName(e) == << e.prenom, e.nom >>

\* state.get(insee, {"nom_commune": "", "elus": {}})
GetCommune(state, insee) ==
    IF insee \in DOMAIN state THEN state[insee]
    ELSE [nom_commune |-> "", elus |-> << >>]

\* Variant of EluChange: the role lists of an official in both snapshots
\* are compared as lists, so a reordering counts as a change.
EluChange_Ordered(old_elus, new_elus, nom_commune, elu_key) ==
    IF elu_key \notin DOMAIN old_elus
    THEN << [elu |-> EluName(new_elus[elu_key]),
             commune |-> nom_commune,
             type_changement |-> "NOUVEL_ELU",
             anciens_postes |-> << >>,
             nouveaux_postes |-> new_elus[elu_key].postes] >>
    ELSE IF elu_key \notin DOMAIN new_elus
    THEN << [elu |-> EluName(old_elus[elu_key]),
             commune |-> nom_commune,
             type_changement |-> "ELU_SORTANT",
             anciens_postes |-> old_elus[elu_key].postes,
             nouveaux_postes |-> << >>] >>
    ELSE IF old_elus[elu_key].postes # new_elus[elu_key].postes
    THEN << [elu |-> EluName(new_elus[elu_key]),
             commune |-> nom_commune,
             type_changement |-> "MODIFICATION_POSTE",
             anciens_postes |-> SortedPostes(Range(old_elus[elu_key].postes)),
             nouveaux_postes |-> SortedPostes(Range(new_elus[elu_key].postes))] >>
    ELSE << >>

\* The changes appended for one official key (zero or one entry).
EluChange(old_elus, new_elus, nom_commune, elu_key) ==
    IF elu_key \notin DOMAIN old_elus
    THEN << [elu |-> EluName(new_elus[elu_key]),
             commune |-> nom_commune,
             type_changement |-> "NOUVEL_ELU",
             anciens_postes |-> << >>,
             nouveaux_postes |-> new_elus[elu_key].postes] >>
    ELSE IF elu_key \notin DOMAIN new_elus
    THEN << [elu |-> EluName(old_elus[elu_key]),
             commune |-> nom_commune,
             type_changement |-> "ELU_SORTANT",
             anciens_postes |-> old_elus[elu_key].postes,
             nouveaux_postes |-> << >>] >>
    ELSE LET old_p == Range(old_elus[elu_key].postes)
             new_p == Range(new_elus[elu_key].postes)
         IN  IF old_p # new_p
             THEN << [elu |-> EluName(new_elus[elu_key]),
                      commune |-> nom_commune,
                      type_changement |-> "MODIFICATION_POSTE",
                      anciens_postes |-> SortedPostes(old_p),
                      nouveaux_postes |-> SortedPostes(new_p)] >>
             ELSE << >>

RECURSIVE Changements(_, _, _, _)
Changements(old_elus, new_elus, nom_commune, keys) ==
    IF keys = << >> THEN << >>
    ELSE EluChange(old_elus, new_elus, nom_commune, Head(keys))
         \o Changements(old_elus, new_elus, nom_commune, Tail(keys))

\* Variant of CommuneReport: the report is appended even when the commune
\* has no change.
CommuneReport_KeepEmpty(old_state, new_state, insee) ==
    LET old_c == GetCommune(old_state, insee)
        new_c == GetCommune(new_state, insee)
        nom_commune == IF new_c.nom_commune # "" THEN new_c.nom_commune
                       ELSE old_c.nom_commune
        elu_keys == SetToSeq(DOMAIN old_c.elus \cup DOMAIN new_c.elus)
        changements == Changements(old_c.elus, new_c.elus, nom_commune, elu_keys)
    IN  << [commune_code_insee |-> insee,
            commune_nom |-> nom_commune,
            changements |-> changements] >>

\* The report appended for one commune (zero or one entry).
CommuneReport(old_state, new_state, insee) ==
    LET old_c == GetCommune(old_state, insee)
        new_c == GetCommune(new_state, insee)
        nom_commune == IF new_c.nom_commune # "" THEN new_c.nom_commune
                       ELSE old_c.nom_commune
        elu_keys == SetToSeq(DOMAIN old_c.elus \cup DOMAIN new_c.elus)
        changements == Changements(old_c.elus, new_c.elus, nom_commune, elu_keys)
    IN  IF changements # << >>
        THEN << [commune_code_insee |-> insee,
                 commune_nom |-> nom_commune,
                 changements |-> changements] >>
        ELSE << >>

\* The loop over insee_codes: the reports of the codes, appended in the
\* order of iteration (evaluated by halves to keep the evaluation shallow).
RECURSIVE DiffOver(_, _, _)
DiffOver(old_state, new_state, codes) ==
    IF codes = << >> THEN << >>
    ELSE IF Len(codes) = 1
    THEN CommuneReport(old_state, new_state, codes[1])
    ELSE LET h == Len(codes) \div 2
         IN  DiffOver(old_state, new_state, SubSeq(codes, 1, h))
             \o DiffOver(old_state, new_state, SubSeq(codes, h + 1, Len(codes)))

\* Iteration order of the set of commune codes: a fixed order of its
\* elements, here the ascending one.
CodesInOrder(S) ==
    [k \in 1..Cardinality(S) |->
        CHOOSE x \in S : Cardinality({ y \in S : y < x }) = k - 1]

\* compute_diff(old_state, new_state, insee_filter).  A filter is
\* [given, codes]; NoFilter stands for insee_filter=None.  "if insee_filter:"
\* is false for None and for an empty collection.
NoFilter == [given |-> FALSE, codes |-> {}]

compute_diff(old_state, new_state, insee_filter) ==
    LET all_codes == DOMAIN old_state \cup DOMAIN new_state
        insee_codes == IF insee_filter.given /\ insee_filter.codes # {}
                       THEN all_codes \cap insee_filter.codes
                       ELSE all_codes
    IN  DiffOver(old_state, new_state, CodesInOrder(insee_codes))

\* ------------------------------------------------------- snapshot builder
\* An extract file is [exists, has_header, fieldnames, rows]: fieldnames is
\* the header row as read by csv.DictReader (has_header false stands for
\* fieldnames = None, a file with no row at all), rows are the data rows,
\* each a sequence of values in the order of fieldnames.

\* str.upper() on the surnames used by the model.
Upper(str) ==
    CASE str = "Dupont" -> "DUPONT"
      [] str = "Martin" -> "MARTIN"
      [] OTHER -> str

\* str.strip() on the strings used by the model.
Strip(str) ==
    CASE str = "Prénom de l'élu " -> "Prénom de l'élu"
      [] str = "DUPONT " -> "DUPONT"
      [] str = " 75056" -> "75056"
      [] OTHER -> str

\* header.get(name) with header = {k.strip(): k for k in reader.fieldnames}:
\* the raw column name whose stripped form is name, "" for None.
HeaderGet(fieldnames, name) ==
    LET hits == { k \in 1..Len(fieldnames) : Strip(fieldnames[k]) = name }
    IN  IF hits = {} THEN ""
        ELSE fieldnames[CHOOSE k \in hits : \A j \in hits : j <= k]

\* header.get(a) or header.get(b)
HeaderGetOr(fieldnames, a, b) ==
    IF HeaderGet(fieldnames, a) # "" THEN HeaderGet(fieldnames, a)
    ELSE HeaderGet(fieldnames, b)

\* The column mapping of process_file.
Columns(fieldnames) ==
    [insee |-> HeaderGetOr(fieldnames, "Code de la commune",
                  "Code de la commune ou de l'arrondissement"),
     nom_commune |-> HeaderGetOr(fieldnames, "Libellé de la commune",
                  "Libellé de la commune ou de l'arrondissement"),
     nom |-> HeaderGet(fieldnames, "Nom de l'élu"),
     prenom |-> HeaderGet(fieldnames, "Prénom de l'élu"),
     dob |-> HeaderGet(fieldnames, "Date de naissance"),
     fonction |-> HeaderGet(fieldnames, "Libellé de la fonction")]

\* row.get(col, ""): the value of the row under the raw column name col,
\* "" when col is None.
RowGet(fieldnames, row, col) ==
    IF col = "" THEN ""
    ELSE row[CHOOSE k \in 1..Len(fieldnames) : fieldnames[k] = col]

\* The values process_file reads from one row: stripped, surname upper-cased,
\* poste falling back to default_poste, and the official key.
ReadRow(fieldnames, row, default_poste) ==
    LET col == Columns(fieldnames)
        insee == Strip(RowGet(fieldnames, row, col.insee))
        nom == Upper(Strip(RowGet(fieldnames, row, col.nom)))
        prenom == Strip(RowGet(fieldnames, row, col.prenom))
        dob == Strip(RowGet(fieldnames, row, col.dob))
        fonction == IF col.fonction # ""
                    THEN Strip(RowGet(fieldnames, row, col.fonction))
                    ELSE ""
    IN  [insee |-> insee,
         nom_commune |-> Strip(RowGet(fieldnames, row, col.nom_commune)),
         nom |-> nom,
         prenom |-> prenom,
         poste |-> IF fonction = "" THEN default_poste ELSE fonction,
         elu_key |-> nom \o "|" \o prenom \o "|" \o dob]

\* "if not insee or not nom: continue"
Skipped(r) == r.insee = "" \/ r.nom = ""

\* Variant of MergeRow: the commune name is set by every row.
MergeRow_Overwrite(state, r) ==
    LET seen == r.insee \in DOMAIN state
        elus == IF seen THEN state[r.insee].elus ELSE << >>
        postes == IF r.elu_key \in DOMAIN elus THEN elus[r.elu_key].postes
                  ELSE << >>
        elu == [nom |-> r.nom, prenom |-> r.prenom,
                postes |-> IF r.poste \in Range(postes) THEN postes
                           ELSE Append(postes, r.poste)]
        commune == [nom_commune |-> r.nom_commune,
                    elus |-> [k \in DOMAIN elus \cup {r.elu_key} |->
                                IF k = r.elu_key THEN elu ELSE elus[k]]]
    IN  [c \in DOMAIN state \cup {r.insee} |->
            IF c = r.insee THEN commune ELSE state[c]]

\* The body of the row loop for a row that is not skipped: the commune is
\* created with the row's name on first sight, the official on first
\* sight, and the poste appended if the official does not have it.
MergeRow(state, r) ==
    LET seen == r.insee \in DOMAIN state
        elus == IF seen THEN state[r.insee].elus ELSE << >>
        postes == IF r.elu_key \in DOMAIN elus THEN elus[r.elu_key].postes
                  ELSE << >>
        elu == IF r.elu_key \in DOMAIN elus
               THEN [elus[r.elu_key] EXCEPT
                       !.postes = IF r.poste \in Range(postes) THEN postes
                                  ELSE Append(postes, r.poste)]
               ELSE [nom |-> r.nom, prenom |-> r.prenom,
                     postes |-> << r.poste >>]
        commune == [nom_commune |-> IF seen THEN state[r.insee].nom_commune
                                    ELSE r.nom_commune,
                    elus |-> [k \in DOMAIN elus \cup {r.elu_key} |->
                                IF k = r.elu_key THEN elu ELSE elus[k]]]
    IN  [c \in DOMAIN state \cup {r.insee} |->
            IF c = r.insee THEN commune ELSE state[c]]

\* "for row in reader" over the rows of a file.
RECURSIVE MergeRows(_, _, _, _)
MergeRows(state, fieldnames, rows, default_poste) ==
    IF rows = << >> THEN state
    ELSE LET r == ReadRow(fieldnames, Head(rows), default_poste)
         IN  MergeRows(IF Skipped(r) THEN state ELSE MergeRow(state, r),
                       fieldnames, Tail(rows), default_poste)

\* "if not all([col_insee, col_nom, col_prenom])"
MissingColumns(fieldnames) ==
    LET col == Columns(fieldnames)
    IN  col.insee = "" \/ col.nom = "" \/ col.prenom = ""

\* process_file raises: reader.fieldnames is None, so the dictionary
\* comprehension over it raises TypeError.
ProcessRaises(file) == file.exists /\ ~file.has_header

\* process_file(filepath, default_poste, state) when it returns: the state
\* after the call.
process_file(file, default_poste, state) ==
    IF ~file.exists THEN state
    ELSE IF MissingColumns(file.fieldnames) THEN state
    ELSE MergeRows(state, file.fieldnames, file.rows, default_poste)

\* The rows of a file that reach the merge, as read.
RECURSIVE ReadRows(_, _, _)
ReadRows(fieldnames, rows, default_poste) ==
    IF rows = << >> THEN << >>
    ELSE LET r == ReadRow(fieldnames, Head(rows), default_poste)
         IN  (IF Skipped(r) THEN << >> ELSE << r >>)
             \o ReadRows(fieldnames, Tail(rows), default_poste)

\* The default_poste of the three calls of parse_all_rne_datasets.
DefaultPostes ==
    << "Conseiller municipal", "Maire", "Conseiller d'arrondissement" >>

\* Header rows: the full one (one name padded), the one of the
\* arrondissement extract without a fonction column, and one without the
\* surname column.
FullHeader ==
    << "Code de la commune", "Libellé de la commune", "Nom de l'élu",
       "Prénom de l'élu ", "Date de naissance", "Libellé de la fonction" >>

ArrHeader ==
    << "Code de la commune ou de l'arrondissement",
       "Libellé de la commune ou de l'arrondissement", "Nom de l'élu",
       "Prénom de l'élu", "Date de naissance" >>

BadHeader ==
    << "Code de la commune", "Libellé de la commune", "Prénom de l'élu",
       "Date de naissance" >>

\* Data rows under FullHeader: an official with no fonction, the same
\* official written otherwise with a fonction and another commune name, a
\* row without surname, and an official of another commune.
FullRows ==
    { << "75056", "Paris", "Dupont", "Jean", "01/01/1970", "" >>,
      << " 75056", "PARIS", "DUPONT ", "Jean", "01/01/1970", "Maire" >>,
      << "75056", "Lutèce", "", "Jean", "01/01/1970", "Maire" >>,
      << "13043", "Gignac", "Martin", "Paul", "02/02/1980", "" >> }

RECURSIVE SeqsUpTo(_, _)
SeqsUpTo(S, n) ==
    IF n = 0 THEN { << >> }
    ELSE LET shorter == SeqsUpTo(S, n - 1)
         IN  shorter \cup { Append(q, x) : q \in shorter, x \in S }

MissingFile ==
    [exists |-> FALSE, has_header |-> FALSE, fieldnames |-> << >>,
     rows |-> << >>]

\* A file with no row at all.
EmptyFile == [MissingFile EXCEPT !.exists = TRUE]

\* Files that process_file skips or fails on: missing, without any row,
\* without the surname column.
UnusableFiles ==
    { MissingFile, EmptyFile,
      [exists |-> TRUE, has_header |-> TRUE, fieldnames |-> BadHeader,
       rows |-> << << "75056", "Paris", "Jean", "01/01/1970" >> >>] }

\* The municipal and mayoral extracts.
ExtractFiles ==
    UnusableFiles
    \cup { [exists |-> TRUE, has_header |-> TRUE, fieldnames |-> FullHeader,
            rows |-> rows] : rows \in SeqsUpTo(FullRows, MaxRows) }

\* The arrondissement extract.
ArrFiles ==
    UnusableFiles
    \cup { [exists |-> TRUE, has_header |-> TRUE, fieldnames |-> ArrHeader,
            rows |-> << << "75056", "Paris 1er", "Dupont", "Jean",
                          "01/01/1970" >> >>] }

\* ------------------------------------------------ arguments of compute_diff
\* The snapshots given to compute_diff on its own: each commune code of
\* DiffCodes is absent or carries one of these sets of officials.  The third
\* lists the roles of the second in another order.
OtherKey == "MARTIN|Paul|02/02/1980"

Dupont(postes) == [nom |-> "DUPONT", prenom |-> "Jean", postes |-> postes]

Martin(postes) == [nom |-> "MARTIN", prenom |-> "Paul", postes |-> postes]

EluMaps ==
    { ("DUPONT|Jean|01/01/1970" :> Dupont(<< "Conseiller municipal" >>)),
      ("DUPONT|Jean|01/01/1970" :> Dupont(<< "Conseiller municipal", "Maire" >>)),
      ("DUPONT|Jean|01/01/1970" :> Dupont(<< "Maire", "Conseiller municipal" >>)),
      ("DUPONT|Jean|01/01/1970" :> Dupont(<< "Maire" >>))
         @@ (OtherKey :> Martin(<< "Adjoint au maire" >>)) }

DiffCodes == 1..MaxDiffCommunes

DiffSnapshots ==
    UNION { [ S -> { [nom_commune |-> "Commune", elus |-> e] : e \in EluMaps } ]
            : S \in SUBSET DiffCodes }

\* insee_filter: None, or a list of codes (possibly empty, possibly naming
\* a code of no snapshot).
DiffFilters ==
    { NoFilter } \cup { [given |-> TRUE, codes |-> S] : S \in SUBSET DiffCodes }

\* ------------------------------------------------------ published extracts
\* What parse_all_rne_datasets builds from the extract directory is drawn
\* from a family of rosters: the first n communes, each with one official
\* whose record is one of three variants.  Variant 3 lists the roles of
\* variant 2 in another order (same role set).
EluKey == "DUPONT|Jean|01/01/1970"

VariantPostes(v) ==
    CASE v = 1 -> << "Conseiller municipal" >>
      [] v = 2 -> << "Conseiller municipal", "Maire" >>
      [] v = 3 -> << "Maire", "Conseiller municipal" >>

Roster(n, v) ==
    [c \in 1..n |->
        [nom_commune |-> "Commune",
         elus |-> (EluKey :> [nom |-> "DUPONT", prenom |-> "Jean",
                              postes |-> VariantPostes(v)])]]

RosterSizes == {0, 1, MaxCommunes}

Rosters == { Roster(n, v) : n \in RosterSizes, v \in 1..2 } \cup { Roster(1, 3) }

SmallRosters == { Roster(n, v) : n \in {0, 1}, v \in 1..2 }

\* ------------------------------------------------------------------ state
VARIABLES
    data_rne,       \* extract directory: [readable, roster]
    rne_state_json, \* the state file: [exists, data]
    sync_status,    \* api.py sync_status: [is_running, last_run, last_status]
    pc,             \* per thread: position in handler / background task
    kind,           \* per thread: "sync" or "batch" request
    response,       \* per thread: result of its last trigger request
    new_state,      \* per thread: local of main
    old_state,      \* per thread: local of main
    is_first_run,   \* per thread: local of main
    diff_report,    \* per thread: local of main
    i,              \* per thread: loop index of send_to_webhook
    success_all,    \* per thread: local of send_to_webhook
    success,        \* per thread: local of main
    posts,          \* per thread: webhook calls made in this cycle [chunk, ok]
    saved,          \* per thread: save_state was called in this cycle
    delivered,      \* reports the webhook accepted since the extracts changed
    committed,      \* reports accepted in fully delivered cycles since then
    prev,           \* outcome of the last cycle that reached step 6 of main
    status_lock,    \* api.py status_lock: Unlocked or the thread holding it
    state_data,     \* per thread: local of the lookup and merge handlers
    diff_call,      \* one call of compute_diff: arguments and result
    parse_run       \* one run of parse_all_rne_datasets: files and state

vars == << data_rne, rne_state_json, sync_status, pc, kind, response,
           new_state, old_state, is_first_run, diff_report, i, success_all,
           success, posts, saved, delivered, committed, prev,
           status_lock, state_data, diff_call, parse_run >>

locals == << new_state, old_state, is_first_run, diff_report, i,
             success_all, success, posts, saved >>

history == << delivered, committed, prev >>

\* The calls of the pure functions checked on their own.
pure == << diff_call, parse_run >>

\* What the trigger handlers and the cycle never write.
ext == << status_lock, state_data, pure >>

\* ------------------------------------------------------------ Snapshot Store
\* The state file is [exists, partial, data]: partial tells that the file
\* holds less than a whole dump (nothing yet, or a prefix of the JSON text),
\* which json.load cannot decode; data is the snapshot of a whole dump.
\* load_state(): {} when the file does not exist, else its decoded content.
load_state(file) == IF file.exists THEN file.data ELSE EmptyState

\* json.load(f) raises: the file exists and does not hold a whole dump.
Malformed(file) == file.exists /\ file.partial

\* open(filepath, "w"): the file is created or truncated to nothing.
OpenForWrite == [exists |-> TRUE, partial |-> TRUE, data |-> EmptyState]

\* save_state(state) once json.dump has written everything and the file is
\* closed: the file holds the dumped state.
save_state(state) == [exists |-> TRUE, partial |-> FALSE, data |-> state]

\* ---------------------------------------------------------------- helpers
Min(a, b) == IF a < b THEN a ELSE b

\* Variant of Chunk: the slice runs one report too far.
Chunk_OffByOne(report, start) ==
    SubSeq(report, start + 1, Min(start + CHUNK_SIZE + 1, Len(report)))

\* diff_report[i:i + CHUNK_SIZE] with a 0-based start index i
Chunk(report, start) ==
    SubSeq(report, start + 1, Min(start + CHUNK_SIZE, Len(report)))

\* The reports of the webhook calls of a cycle.
RECURSIVE PostedReports(_)
PostedReports(ps) ==
    IF ps = << >> THEN << >>
    ELSE Head(ps).chunk \o PostedReports(Tail(ps))

NoPrev == [failed |-> FALSE, diff |-> << >>]

ReadableExtract(r) == [readable |-> TRUE, roster |-> r]

\* An extract directory whose files cannot be decoded.
UnreadableExtract == [readable |-> FALSE, roster |-> EmptyState]

Extracts == { ReadableExtract(r) : r \in Rosters } \cup { UnreadableExtract }

SmallExtracts ==
    { ReadableExtract(r) : r \in SmallRosters } \cup { UnreadableExtract }

\* No state file has been written yet.
NoFile == [exists |-> FALSE, partial |-> FALSE, data |-> EmptyState]

\* status_lock is not held.
Unlocked == 0

\* State of the process after the module api.py is imported.
InitProcess ==
    /\ sync_status = [is_running |-> FALSE, last_run |-> "None",
                      last_status |-> "inconnu"]
    /\ pc = [t \in Threads |-> "idle"]
    /\ kind = [t \in Threads |-> "sync"]
    /\ response = [t \in Threads |-> "none"]
    /\ new_state = [t \in Threads |-> EmptyState]
    /\ old_state = [t \in Threads |-> EmptyState]
    /\ is_first_run = [t \in Threads |-> FALSE]
    /\ diff_report = [t \in Threads |-> << >>]
    /\ i = [t \in Threads |-> 0]
    /\ success_all = [t \in Threads |-> TRUE]
    /\ success = [t \in Threads |-> FALSE]
    /\ posts = [t \in Threads |-> << >>]
    /\ saved = [t \in Threads |-> FALSE]
    /\ delivered = {}
    /\ committed = {}
    /\ prev = NoPrev
    /\ status_lock = Unlocked
    /\ state_data = [t \in Threads |-> EmptyState]

\* No call of the functions checked on their own is under way.
NoCall == [done |-> FALSE]

InitPure ==
    /\ diff_call = NoCall
    /\ parse_run = NoCall

Init ==
    /\ data_rne \in SmallExtracts
    /\ rne_state_json = NoFile
    /\ InitProcess
    /\ InitPure

CycleInit ==
    /\ data_rne \in Extracts
    /\ rne_state_json = NoFile
    /\ InitProcess
    /\ InitPure

\* --------------------------------------------------------- trigger handlers
\* The last_status labels of run_sync_task and run_batch_task.
StatusLabel(k, base) == IF k = "batch" THEN base \o " (batch)" ELSE base

\* A cycle is in progress in thread t: sync_main() has been called and the
\* task has not yet reached its finally clause.
MainPcs == {"parse", "load", "send", "persist", "saving"}

\* Thread t holds the run flag: from setting it to clearing it.
HeldPcs == MainPcs \cup {"returned", "except", "finally"}

ResetLocals(t) ==
    /\ new_state' = [new_state EXCEPT ![t] = EmptyState]
    /\ old_state' = [old_state EXCEPT ![t] = EmptyState]
    /\ is_first_run' = [is_first_run EXCEPT ![t] = FALSE]
    /\ diff_report' = [diff_report EXCEPT ![t] = << >>]
    /\ i' = [i EXCEPT ![t] = 0]
    /\ success_all' = [success_all EXCEPT ![t] = TRUE]
    /\ success' = [success EXCEPT ![t] = FALSE]
    /\ posts' = [posts EXCEPT ![t] = << >>]
    /\ saved' = [saved EXCEPT ![t] = FALSE]

\* The thread is done with its request and its task.
ThreadFree(t) ==
    /\ kind' = [kind EXCEPT ![t] = "sync"]
    /\ response' = [response EXCEPT ![t] = "none"]

\* trigger_sync / trigger_batch_sync, flag clear: the task is scheduled and
\* the request is answered 202.
TriggerAccept(t, k) ==
    /\ pc[t] = "idle"
    /\ status_lock = Unlocked
    /\ ~sync_status.is_running
    /\ pc' = [pc EXCEPT ![t] = "task"]
    /\ kind' = [kind EXCEPT ![t] = k]
    /\ response' = [response EXCEPT ![t] = "202"]
    /\ UNCHANGED << data_rne, rne_state_json, sync_status, locals, history >>
    /\ UNCHANGED ext

\* Variant of TriggerReject: the request made during a cycle is accepted and
\* its task scheduled.
TriggerReject_Queue(t, k) ==
    /\ pc[t] = "idle"
    /\ status_lock = Unlocked
    /\ sync_status.is_running
    /\ pc' = [pc EXCEPT ![t] = "task"]
    /\ kind' = [kind EXCEPT ![t] = k]
    /\ response' = [response EXCEPT ![t] = "202"]
    /\ UNCHANGED << data_rne, rne_state_json, sync_status, locals, history >>
    /\ UNCHANGED ext

\* trigger_sync / trigger_batch_sync, flag set: HTTP 409, nothing scheduled.
TriggerReject(t, k) ==
    /\ pc[t] = "idle"
    /\ status_lock = Unlocked
    /\ sync_status.is_running
    /\ pc' = [pc EXCEPT ![t] = "rejected"]
    /\ kind' = [kind EXCEPT ![t] = k]
    /\ response' = [response EXCEPT ![t] = "409"]
    /\ UNCHANGED << data_rne, rne_state_json, sync_status, locals, history >>
    /\ UNCHANGED ext

\* The 409 response has been sent; the thread serves the next request.
RejectDone(t) ==
    /\ pc[t] = "rejected"
    /\ pc' = [pc EXCEPT ![t] = "idle"]
    /\ ThreadFree(t)
    /\ UNCHANGED << data_rne, rne_state_json, sync_status, locals, history >>
    /\ UNCHANGED ext

\* --------------------------------------------------------- background task
\* Variant of TaskEnter: the flag is set without being tested.
TaskEnter_NoTest(t) ==
    /\ pc[t] = "task"
    /\ status_lock = Unlocked
    /\ sync_status' = [sync_status EXCEPT
                          !.is_running = TRUE,
                          !.last_status = StatusLabel(kind[t], "en cours")]
    /\ pc' = [pc EXCEPT ![t] = "parse"]
    /\ ResetLocals(t)
    /\ UNCHANGED << data_rne, rne_state_json, kind, response, history >>
    /\ UNCHANGED ext

\* run_sync_task / run_batch_task, first critical section, flag clear.
TaskEnter(t) ==
    /\ pc[t] = "task"
    /\ status_lock = Unlocked
    /\ ~sync_status.is_running
    /\ sync_status' = [sync_status EXCEPT
                          !.is_running = TRUE,
                          !.last_status = StatusLabel(kind[t], "en cours")]
    /\ pc' = [pc EXCEPT ![t] = "parse"]
    /\ ResetLocals(t)
    /\ UNCHANGED << data_rne, rne_state_json, kind, response, history >>
    /\ UNCHANGED ext

\* run_sync_task / run_batch_task, first critical section, flag already set:
\* return.
TaskSkip(t) ==
    /\ pc[t] = "task"
    /\ status_lock = Unlocked
    /\ sync_status.is_running
    /\ pc' = [pc EXCEPT ![t] = "idle"]
    /\ ThreadFree(t)
    /\ UNCHANGED << data_rne, rne_state_json, sync_status, locals, history >>
    /\ UNCHANGED ext

\* ----------------------------------------------------------- sync_rne.main
\* Step 2 of main: new_state = parse_all_rne_datasets().
ParseOK(t) ==
    /\ pc[t] = "parse"
    /\ data_rne.readable
    /\ new_state' = [new_state EXCEPT ![t] = data_rne.roster]
    /\ pc' = [pc EXCEPT ![t] = "load"]
    /\ UNCHANGED << data_rne, rne_state_json, sync_status, kind, response,
                    old_state, is_first_run, diff_report, i, success_all,
                    success, posts, saved, history >>
    /\ UNCHANGED ext

\* Step 2 of main raises (an extract that cannot be decoded or has no header
\* row): the exception leaves main.
ParseRaise(t) ==
    /\ pc[t] = "parse"
    /\ ~data_rne.readable
    /\ pc' = [pc EXCEPT ![t] = "except"]
    /\ UNCHANGED << data_rne, rne_state_json, sync_status, kind, response,
                    locals, history >>
    /\ UNCHANGED ext

\* Variant of LoadAndDiff: no first-run test, delivery is always attempted.
LoadAndDiff_NoSuppress(t) ==
    /\ pc[t] = "load"
    /\ ~Malformed(rne_state_json)
    /\ LET old == load_state(rne_state_json)
           first == (DOMAIN old = {})
           diff == compute_diff(old, new_state[t], NoFilter)
       IN  /\ old_state' = [old_state EXCEPT ![t] = old]
           /\ is_first_run' = [is_first_run EXCEPT ![t] = first]
           /\ diff_report' = [diff_report EXCEPT ![t] = diff]
           /\ IF diff = << >>
              THEN /\ pc' = [pc EXCEPT ![t] = "returned"]
                   /\ UNCHANGED << success, success_all, i >>
              ELSE /\ success_all' = [success_all EXCEPT ![t] = TRUE]
                   /\ i' = [i EXCEPT ![t] = 0]
                   /\ pc' = [pc EXCEPT ![t] = "send"]
                   /\ UNCHANGED success
    /\ UNCHANGED << data_rne, rne_state_json, sync_status, kind, response,
                    new_state, posts, saved, history >>
    /\ UNCHANGED ext

\* Variant of LoadAndDiff: an empty diff still saves the new state.
LoadAndDiff_SaveOnEmpty(t) ==
    /\ pc[t] = "load"
    /\ ~Malformed(rne_state_json)
    /\ LET old == load_state(rne_state_json)
           first == (DOMAIN old = {})
           diff == compute_diff(old, new_state[t], NoFilter)
       IN  /\ old_state' = [old_state EXCEPT ![t] = old]
           /\ is_first_run' = [is_first_run EXCEPT ![t] = first]
           /\ diff_report' = [diff_report EXCEPT ![t] = diff]
           /\ IF diff = << >>
              THEN /\ pc' = [pc EXCEPT ![t] = "returned"]
                   /\ rne_state_json' = save_state(new_state[t])
                   /\ saved' = [saved EXCEPT ![t] = TRUE]
                   /\ UNCHANGED << success, success_all, i >>
              ELSE IF first
              THEN /\ success' = [success EXCEPT ![t] = TRUE]
                   /\ pc' = [pc EXCEPT ![t] = "persist"]
                   /\ UNCHANGED << success_all, i, rne_state_json, saved >>
              ELSE /\ success_all' = [success_all EXCEPT ![t] = TRUE]
                   /\ i' = [i EXCEPT ![t] = 0]
                   /\ pc' = [pc EXCEPT ![t] = "send"]
                   /\ UNCHANGED << success, rne_state_json, saved >>
    /\ UNCHANGED << data_rne, sync_status, kind, response, new_state, posts,
                    history >>
    /\ UNCHANGED ext

\* Steps 3-5 of main up to the first webhook call: load the baseline,
\* compute the diff, return when it is empty, skip delivery on a first run,
\* otherwise enter send_to_webhook.
LoadAndDiff(t) ==
    /\ pc[t] = "load"
    /\ ~Malformed(rne_state_json)
    /\ LET old == load_state(rne_state_json)
           first == (DOMAIN old = {})
           diff == compute_diff(old, new_state[t], NoFilter)
       IN  /\ old_state' = [old_state EXCEPT ![t] = old]
           /\ is_first_run' = [is_first_run EXCEPT ![t] = first]
           /\ diff_report' = [diff_report EXCEPT ![t] = diff]
           /\ IF diff = << >>
              THEN /\ pc' = [pc EXCEPT ![t] = "returned"]
                   /\ UNCHANGED << success, success_all, i >>
              ELSE IF first
              THEN /\ success' = [success EXCEPT ![t] = TRUE]
                   /\ pc' = [pc EXCEPT ![t] = "persist"]
                   /\ UNCHANGED << success_all, i >>
              ELSE /\ success_all' = [success_all EXCEPT ![t] = TRUE]
                   /\ i' = [i EXCEPT ![t] = 0]
                   /\ pc' = [pc EXCEPT ![t] = "send"]
                   /\ UNCHANGED success
    /\ UNCHANGED << data_rne, rne_state_json, sync_status, kind, response,
                    new_state, posts, saved, history >>
    /\ UNCHANGED ext

\* Variant of LoadRaise: a state file that cannot be decoded is taken for an
\* absent one, and the cycle goes on as a first run.
LoadRaise_Fallback(t) ==
    /\ pc[t] = "load"
    /\ Malformed(rne_state_json)
    /\ old_state' = [old_state EXCEPT ![t] = EmptyState]
    /\ is_first_run' = [is_first_run EXCEPT ![t] = TRUE]
    /\ diff_report' = [diff_report EXCEPT
                          ![t] = compute_diff(EmptyState, new_state[t], NoFilter)]
    /\ success' = [success EXCEPT ![t] = TRUE]
    /\ pc' = [pc EXCEPT ![t] = "persist"]
    /\ UNCHANGED << data_rne, rne_state_json, sync_status, kind, response,
                    new_state, i, success_all, posts, saved, history >>
    /\ UNCHANGED ext

\* Step 3 of main raises: load_state finds a state file that json.load
\* cannot decode; the exception leaves main.
LoadRaise(t) ==
    /\ pc[t] = "load"
    /\ Malformed(rne_state_json)
    /\ pc' = [pc EXCEPT ![t] = "except"]
    /\ UNCHANGED << data_rne, rne_state_json, sync_status, kind, response,
                    locals, history >>
    /\ UNCHANGED ext

\* Variant of Post: the first failed call ends the loop.
Post_AbortOnFailure(t, ok) ==
    /\ pc[t] = "send"
    /\ LET chunk == Chunk(diff_report[t], i[t])
           next_i == i[t] + CHUNK_SIZE
           all_ok == success_all[t] /\ ok
       IN  /\ posts' = [posts EXCEPT
                          ![t] = Append(@, [chunk |-> chunk, ok |-> ok])]
           /\ success_all' = [success_all EXCEPT ![t] = all_ok]
           /\ i' = [i EXCEPT ![t] = next_i]
           /\ delivered' = IF ok THEN delivered \cup Range(chunk)
                           ELSE delivered
           /\ IF ok /\ next_i < Len(diff_report[t])
              THEN UNCHANGED << pc, success >>
              ELSE /\ success' = [success EXCEPT ![t] = all_ok]
                   /\ pc' = [pc EXCEPT ![t] = "persist"]
    /\ UNCHANGED << data_rne, rne_state_json, sync_status, kind, response,
                    new_state, old_state, is_first_run, diff_report, saved,
                    committed, prev >>
    /\ UNCHANGED ext

\* One iteration of the loop of send_to_webhook; ok tells whether the POST
\* and raise_for_status went through.  After the last iteration the function
\* returns success_all, which main stores in success.
Post(t, ok) ==
    /\ pc[t] = "send"
    /\ LET chunk == Chunk(diff_report[t], i[t])
           next_i == i[t] + CHUNK_SIZE
           all_ok == success_all[t] /\ ok
       IN  /\ posts' = [posts EXCEPT
                          ![t] = Append(@, [chunk |-> chunk, ok |-> ok])]
           /\ success_all' = [success_all EXCEPT ![t] = all_ok]
           /\ i' = [i EXCEPT ![t] = next_i]
           /\ delivered' = IF ok THEN delivered \cup Range(chunk)
                           ELSE delivered
           /\ IF next_i < Len(diff_report[t])
              THEN UNCHANGED << pc, success >>
              ELSE /\ success' = [success EXCEPT ![t] = all_ok]
                   /\ pc' = [pc EXCEPT ![t] = "persist"]
    /\ UNCHANGED << data_rne, rne_state_json, sync_status, kind, response,
                    new_state, old_state, is_first_run, diff_report, saved,
                    committed, prev >>
    /\ UNCHANGED ext

PostOK(t) == Post(t, TRUE)

PostFail(t) == Post(t, FALSE)

\* Variant of Persist: the new state is saved whatever the delivery outcome.
Persist_IgnoreSuccess(t) ==
    /\ pc[t] = "persist"
    /\ rne_state_json' = OpenForWrite
    /\ saved' = [saved EXCEPT ![t] = TRUE]
    /\ pc' = [pc EXCEPT ![t] = "saving"]
    /\ prev' = [failed |-> ~success[t], diff |-> diff_report[t]]
    /\ committed' = IF success[t]
                    THEN committed \cup Range(PostedReports(posts[t]))
                    ELSE committed
    /\ UNCHANGED << data_rne, sync_status, kind, response, new_state,
                    old_state, is_first_run, diff_report, i, success_all,
                    success, posts, delivered >>
    /\ UNCHANGED ext

\* Variant of Persist: the new state is saved in the first-run branch only.
Persist_FirstRunOnly(t) ==
    /\ pc[t] = "persist"
    /\ IF success[t] /\ is_first_run[t]
       THEN /\ rne_state_json' = OpenForWrite
            /\ saved' = [saved EXCEPT ![t] = TRUE]
            /\ pc' = [pc EXCEPT ![t] = "saving"]
       ELSE /\ pc' = [pc EXCEPT ![t] = "returned"]
            /\ UNCHANGED << rne_state_json, saved >>
    /\ prev' = [failed |-> ~success[t], diff |-> diff_report[t]]
    /\ committed' = IF success[t]
                    THEN committed \cup Range(PostedReports(posts[t]))
                    ELSE committed
    /\ UNCHANGED << data_rne, sync_status, kind, response, new_state,
                    old_state, is_first_run, diff_report, i, success_all,
                    success, posts, delivered >>
    /\ UNCHANGED ext

\* Step 6 of main: if success, call save_state, which first opens the state
\* file for writing (the file is truncated at once); else only log.
Persist(t) ==
    /\ pc[t] = "persist"
    /\ IF success[t]
       THEN /\ rne_state_json' = OpenForWrite
            /\ saved' = [saved EXCEPT ![t] = TRUE]
            /\ pc' = [pc EXCEPT ![t] = "saving"]
       ELSE /\ pc' = [pc EXCEPT ![t] = "returned"]
            /\ UNCHANGED << rne_state_json, saved >>
    /\ prev' = [failed |-> ~success[t], diff |-> diff_report[t]]
    /\ committed' = IF success[t]
                    THEN committed \cup Range(PostedReports(posts[t]))
                    ELSE committed
    /\ UNCHANGED << data_rne, sync_status, kind, response, new_state,
                    old_state, is_first_run, diff_report, i, success_all,
                    success, posts, delivered >>
    /\ UNCHANGED ext

\* Variant of SaveDump: the state written is the one loaded at the start of
\* the cycle.
SaveDump_Stale(t) ==
    /\ pc[t] = "saving"
    /\ rne_state_json' = save_state(old_state[t])
    /\ pc' = [pc EXCEPT ![t] = "returned"]
    /\ UNCHANGED << data_rne, sync_status, kind, response, locals, history >>
    /\ UNCHANGED ext

\* save_state of main, after the open: json.dump writes the new state and
\* the file is closed; main returns.
SaveDump(t) ==
    /\ pc[t] = "saving"
    /\ rne_state_json' = save_state(new_state[t])
    /\ pc' = [pc EXCEPT ![t] = "returned"]
    /\ UNCHANGED << data_rne, sync_status, kind, response, locals, history >>
    /\ UNCHANGED ext

\* sync_main() returned: second critical section of the task.
TaskSuccess(t) ==
    /\ pc[t] = "returned"
    /\ status_lock = Unlocked
    /\ sync_status' = [sync_status EXCEPT
                          !.last_status = StatusLabel(kind[t], "succès"),
                          !.last_run = "timestamp"]
    /\ pc' = [pc EXCEPT ![t] = "finally"]
    /\ UNCHANGED << data_rne, rne_state_json, kind, response, locals,
                    history >>
    /\ UNCHANGED ext

\* Variant of TaskExcept: the exception path ends the task without reaching
\* the clearing of the flag.
TaskExcept_NoRelease(t) ==
    /\ pc[t] = "except"
    /\ status_lock = Unlocked
    /\ sync_status' = [sync_status EXCEPT
                          !.last_status = StatusLabel(kind[t], "erreur")]
    /\ pc' = [pc EXCEPT ![t] = "idle"]
    /\ ResetLocals(t)
    /\ ThreadFree(t)
    /\ UNCHANGED << data_rne, rne_state_json, history >>
    /\ UNCHANGED ext

\* sync_main() raised: except clause of the task.
TaskExcept(t) ==
    /\ pc[t] = "except"
    /\ status_lock = Unlocked
    /\ sync_status' = [sync_status EXCEPT
                          !.last_status = StatusLabel(kind[t], "erreur")]
    /\ pc' = [pc EXCEPT ![t] = "finally"]
    /\ UNCHANGED << data_rne, rne_state_json, kind, response, locals,
                    history >>
    /\ UNCHANGED ext

\* finally clause of the task: clear the flag.
TaskFinally(t) ==
    /\ pc[t] = "finally"
    /\ status_lock = Unlocked
    /\ sync_status' = [sync_status EXCEPT !.is_running = FALSE]
    /\ pc' = [pc EXCEPT ![t] = "idle"]
    /\ ResetLocals(t)
    /\ ThreadFree(t)
    /\ UNCHANGED << data_rne, rne_state_json, history >>
    /\ UNCHANGED ext

\* ------------------------------------------------- lookup and merge handlers
\* normalize_string: accents removed, lower case, stripped.
normalize_string(input_str) ==
    CASE input_str \in {"Jean", "JEAN", "jean "} -> "jean"
      [] input_str = "Paul" -> "paul"
      [] OTHER -> input_str

\* The handler has answered; the thread serves the next request.
HandlerFree(t) ==
    /\ pc' = [pc EXCEPT ![t] = "idle"]
    /\ ThreadFree(t)
    /\ state_data' = [state_data EXCEPT ![t] = EmptyState]

\* get_commune_elus, load_state returns: 503 when the state is empty, 404
\* when the commune is not in it, else 200.
LookupOK(t, identifiant) ==
    /\ pc[t] = "idle"
    /\ ~Malformed(rne_state_json)
    /\ LET loaded == load_state(rne_state_json)
       IN  /\ state_data' = [state_data EXCEPT ![t] = loaded]
           /\ response' = [response EXCEPT
                  ![t] = IF DOMAIN loaded = {} THEN "503"
                         ELSE IF identifiant \in DOMAIN loaded THEN "200"
                         ELSE "404"]
    /\ pc' = [pc EXCEPT ![t] = "looked"]
    /\ UNCHANGED << data_rne, rne_state_json, sync_status, kind, locals,
                    history, status_lock, pure >>

\* get_commune_elus, load_state raises on a state file that cannot be
\* decoded: the request is answered 500.
LookupRaise(t) ==
    /\ pc[t] = "idle"
    /\ Malformed(rne_state_json)
    /\ response' = [response EXCEPT ![t] = "500"]
    /\ pc' = [pc EXCEPT ![t] = "looked"]
    /\ UNCHANGED << data_rne, rne_state_json, sync_status, kind, locals,
                    history, ext >>

LookupDone(t) ==
    /\ pc[t] = "looked"
    /\ HandlerFree(t)
    /\ UNCHANGED << data_rne, rne_state_json, sync_status, locals, history,
                    status_lock, pure >>

\* The key of the first official of elus with the surname and the
\* normalised first name of the scraped one, or "" (matched_key = None).
MatchedKey(elus, nom, prenom) ==
    LET hits == { k \in DOMAIN elus :
                    /\ Upper(elus[k].nom) = nom
                    /\ normalize_string(elus[k].prenom)
                          = normalize_string(prenom) }
    IN  IF hits = {} THEN "" ELSE CHOOSE k \in hits : TRUE

\* One iteration of "for elu in scraped_data" on the officials of a commune.
MergeElu(elus, elu) ==
    LET nom == Upper(elu.nom)
        matched_key == MatchedKey(elus, nom, elu.prenom)
        new_key == nom \o "|" \o elu.prenom \o "|Scraped"
    IN  IF matched_key = ""
        THEN [k \in DOMAIN elus \cup {new_key} |->
                IF k = new_key
                THEN [nom |-> nom, prenom |-> elu.prenom,
                      postes |-> IF elu.poste # "" THEN << elu.poste >>
                                 ELSE << >>]
                ELSE elus[k]]
        ELSE IF elu.poste # "" /\ elu.poste \notin Range(elus[matched_key].postes)
        THEN [elus EXCEPT ![matched_key].postes = Append(@, elu.poste)]
        ELSE elus

RECURSIVE MergeElus(_, _)
MergeElus(elus, scraped_data) ==
    IF scraped_data = << >> THEN elus
    ELSE MergeElus(MergeElu(elus, Head(scraped_data)), Tail(scraped_data))

\* The body of "with status_lock" in scrape_url_endpoint between load_state
\* and save_state: the loaded state with the scraped officials merged into
\* the commune insee.
Merged(loaded, insee, scraped_data) ==
    LET commune == IF insee \in DOMAIN loaded THEN loaded[insee]
                   ELSE [nom_commune |-> "Commune Scrapée dynamiquement",
                         elus |-> << >>]
        merged == [commune EXCEPT !.elus = MergeElus(@, scraped_data)]
    IN  [c \in DOMAIN loaded \cup {insee} |->
            IF c = insee THEN merged ELSE loaded[c]]

\* What the scrapers return in the model: one list with an official of the
\* extracts in a further role and an official the extracts do not list.
ScrapedLists ==
    { << [nom |-> "Dupont", prenom |-> "JEAN", poste |-> "Adjoint au maire"],
         [nom |-> "Martin", prenom |-> "Paul", poste |-> "Maire"] >> }

\* The commune codes of the merge requests.
MergeCodes == {1}

\* scrape_url_endpoint, "with status_lock": the lock is taken, load_state
\* returns, the scraped officials are merged into the loaded state.
MergeLoad(t, insee, scraped_data) ==
    /\ pc[t] = "idle"
    /\ status_lock = Unlocked
    /\ ~Malformed(rne_state_json)
    /\ status_lock' = t
    /\ state_data' = [state_data EXCEPT
          ![t] = Merged(load_state(rne_state_json), insee, scraped_data)]
    /\ pc' = [pc EXCEPT ![t] = "merge_save"]
    /\ UNCHANGED << data_rne, rne_state_json, sync_status, kind, response,
                    locals, history, pure >>

\* scrape_url_endpoint, load_state raises under the lock: the lock is
\* released by the with statement and the request is answered 500.
MergeLoadRaise(t) ==
    /\ pc[t] = "idle"
    /\ status_lock = Unlocked
    /\ Malformed(rne_state_json)
    /\ response' = [response EXCEPT ![t] = "500"]
    /\ pc' = [pc EXCEPT ![t] = "merged"]
    /\ UNCHANGED << data_rne, rne_state_json, sync_status, kind, locals,
                    history, ext >>

\* save_state(state_data) of the merge opens the state file for writing.
MergeOpen(t) ==
    /\ pc[t] = "merge_save"
    /\ rne_state_json' = OpenForWrite
    /\ pc' = [pc EXCEPT ![t] = "merge_dump"]
    /\ UNCHANGED << data_rne, sync_status, kind, response, locals, history,
                    ext >>

\* save_state(state_data) of the merge writes the state and closes the
\* file; the lock is released and the request answered 200.
MergeDump(t) ==
    /\ pc[t] = "merge_dump"
    /\ rne_state_json' = save_state(state_data[t])
    /\ status_lock' = Unlocked
    /\ response' = [response EXCEPT ![t] = "200"]
    /\ pc' = [pc EXCEPT ![t] = "merged"]
    /\ UNCHANGED << data_rne, sync_status, kind, state_data, locals, history,
                    pure >>

MergeDone(t) ==
    /\ pc[t] = "merged"
    /\ HandlerFree(t)
    /\ UNCHANGED << data_rne, rne_state_json, sync_status, locals, history,
                    status_lock, pure >>

\* ------------------------------------------------------------- environment
\* The publisher replaces the extract files.  Acquisition precedes the build
\* of a cycle, so the files do not change while a cycle is between its build
\* and its persist step.
Republish(d) ==
    /\ d # data_rne
    /\ \A t \in Threads : pc[t] \notin MainPcs
    /\ data_rne' = d
    /\ delivered' = {}
    /\ committed' = {}
    /\ prev' = NoPrev
    /\ UNCHANGED << rne_state_json, sync_status, pc, kind, response, locals >>
    /\ UNCHANGED ext

\* ---------------------------------------------------------- specifications
\* The service: every worker thread, trigger requests of both kinds.
Next ==
    \/ \E t \in Threads, k \in {"sync", "batch"} : TriggerAccept(t, k)
    \/ \E t \in Threads, k \in {"sync", "batch"} : TriggerReject(t, k)
    \/ \E t \in Threads : RejectDone(t)
    \/ \E t \in Threads : TaskEnter(t)
    \/ \E t \in Threads : TaskSkip(t)
    \/ \E t \in Threads : ParseOK(t)
    \/ \E t \in Threads : ParseRaise(t)
    \/ \E t \in Threads : LoadAndDiff(t)
    \/ \E t \in Threads : PostOK(t)
    \/ \E t \in Threads : PostFail(t)
    \/ \E t \in Threads : Persist(t)
    \/ \E t \in Threads : SaveDump(t)
    \/ \E t \in Threads : TaskSuccess(t)
    \/ \E t \in Threads : TaskExcept(t)
    \/ \E t \in Threads : TaskFinally(t)
    \/ \E d \in SmallExtracts : Republish(d)

Spec == Init /\ [][Next]_vars

\* The steps of the background task of thread t.  A scheduled task is run,
\* every call it makes returns or raises (the webhook call has a timeout),
\* so a task that can take a step eventually takes one.
TaskStep(t) ==
    \/ TaskEnter(t) \/ TaskSkip(t)
    \/ ParseOK(t) \/ ParseRaise(t) \/ LoadAndDiff(t)
    \/ PostOK(t) \/ PostFail(t) \/ Persist(t) \/ SaveDump(t)
    \/ TaskSuccess(t) \/ TaskExcept(t) \/ TaskFinally(t)

\* The service started on fixed extracts, with or without a state file left
\* by an earlier run of the process; the extracts are not replaced.
FairInit ==
    /\ data_rne \in {ReadableExtract(Roster(1, 2)), UnreadableExtract}
    /\ rne_state_json \in {NoFile, save_state(Roster(1, 1))}
    /\ InitProcess
    /\ InitPure

FairNext ==
    \/ \E t \in Threads, k \in {"sync", "batch"} : TriggerAccept(t, k)
    \/ \E t \in Threads, k \in {"sync", "batch"} : TriggerReject(t, k)
    \/ \E t \in Threads : RejectDone(t)
    \/ \E t \in Threads : TaskStep(t)

FairSpec ==
    FairInit /\ [][FairNext]_vars /\ \A t \in Threads : WF_vars(TaskStep(t))

\* Successive cycles triggered through one worker thread, over the whole
\* family of extracts (several chunks per delivery).
Worker == 1

CycleNext ==
    \/ \E k \in {"sync", "batch"} : TriggerAccept(Worker, k)
    \/ TaskEnter(Worker)
    \/ ParseOK(Worker)
    \/ ParseRaise(Worker)
    \/ LoadAndDiff(Worker)
    \/ PostOK(Worker)
    \/ PostFail(Worker)
    \/ Persist(Worker)
    \/ SaveDump(Worker)
    \/ TaskSuccess(Worker)
    \/ TaskExcept(Worker)
    \/ TaskFinally(Worker)
    \/ \E d \in Extracts : Republish(d)

CycleSpec == CycleInit /\ [][CycleNext]_vars

\* compute_diff on its own: the arguments are drawn at the start, the call
\* stores the result.  The service does not run.
ServiceIdle ==
    /\ data_rne = UnreadableExtract
    /\ rne_state_json = NoFile
    /\ InitProcess

service == << data_rne, rne_state_json, sync_status, pc, kind, response,
             locals, history, status_lock, state_data >>

DiffInit ==
    /\ ServiceIdle
    /\ parse_run = NoCall
    /\ diff_call \in { [done |-> FALSE, old_state |-> o, new_state |-> n,
                         insee_filter |-> f, result |-> << >>] :
                        o \in DiffSnapshots, n \in DiffSnapshots,
                        f \in DiffFilters }

CallDiff ==
    /\ ~diff_call.done
    /\ diff_call' = [diff_call EXCEPT
          !.done = TRUE,
          !.result = compute_diff(diff_call.old_state, diff_call.new_state,
                                  diff_call.insee_filter)]
    /\ UNCHANGED << service, parse_run >>

DiffNext == CallDiff

DiffSpec == DiffInit /\ [][DiffNext]_vars

\* parse_all_rne_datasets on its own: the three extract files are drawn at
\* the start; each step is one call of process_file.  parse_run.next is the
\* call to make, parse_run.rows the rows merged so far (as read).
ParseInit ==
    /\ ServiceIdle
    /\ diff_call = NoCall
    /\ parse_run \in { [done |-> FALSE, files |-> << f1, f2, f3 >>,
                         next |-> 1, state |-> EmptyState, raised |-> FALSE,
                         rows |-> << >>] :
                        f1 \in ExtractFiles, f2 \in ExtractFiles,
                        f3 \in ArrFiles }

\* One call of process_file returns.
ProcessFile ==
    /\ ~parse_run.done
    /\ LET file == parse_run.files[parse_run.next]
           default_poste == DefaultPostes[parse_run.next]
       IN  /\ ~ProcessRaises(file)
           /\ parse_run' = [parse_run EXCEPT
                 !.state = process_file(file, default_poste, @),
                 !.rows = IF file.exists /\ ~MissingColumns(file.fieldnames)
                          THEN @ \o ReadRows(file.fieldnames, file.rows,
                                             default_poste)
                          ELSE @,
                 !.next = @ + 1,
                 !.done = (parse_run.next = Len(DefaultPostes))]
    /\ UNCHANGED << service, diff_call >>

\* One call of process_file raises: the exception leaves
\* parse_all_rne_datasets, the remaining files are not processed.
ProcessFileRaise ==
    /\ ~parse_run.done
    /\ ProcessRaises(parse_run.files[parse_run.next])
    /\ parse_run' = [parse_run EXCEPT !.raised = TRUE, !.done = TRUE]
    /\ UNCHANGED << service, diff_call >>

ParseNext == ProcessFile \/ ProcessFileRaise

ParseSpec == ParseInit /\ [][ParseNext]_vars

\* The service with every handler that reads or writes the state file: the
\* triggers and their cycles, the lookups and the merges, on fixed extracts.
StoreNext ==
    \/ \E t \in Threads : TriggerAccept(t, "sync")
    \/ \E t \in Threads : TriggerReject(t, "sync")
    \/ \E t \in Threads : RejectDone(t)
    \/ \E t \in Threads : TaskEnter(t)
    \/ \E t \in Threads : TaskSkip(t)
    \/ \E t \in Threads : ParseOK(t)
    \/ \E t \in Threads : ParseRaise(t)
    \/ \E t \in Threads : LoadAndDiff(t)
    \/ \E t \in Threads : LoadRaise(t)
    \/ \E t \in Threads : PostOK(t)
    \/ \E t \in Threads : PostFail(t)
    \/ \E t \in Threads : Persist(t)
    \/ \E t \in Threads : SaveDump(t)
    \/ \E t \in Threads : TaskSuccess(t)
    \/ \E t \in Threads : TaskExcept(t)
    \/ \E t \in Threads : TaskFinally(t)
    \/ \E t \in Threads, c \in MergeCodes : LookupOK(t, c)
    \/ \E t \in Threads : LookupRaise(t)
    \/ \E t \in Threads : LookupDone(t)
    \/ \E t \in Threads, c \in MergeCodes, d \in ScrapedLists :
          MergeLoad(t, c, d)
    \/ \E t \in Threads : MergeLoadRaise(t)
    \/ \E t \in Threads : MergeOpen(t)
    \/ \E t \in Threads : MergeDump(t)
    \/ \E t \in Threads : MergeDone(t)

StoreSpec == FairInit /\ [][StoreNext]_vars

\* ------------------------------------------------------------- properties
AfterMain == {"returned", "finally"}

AllOk(ps) == \A k \in 1..Len(ps) : ps[k].ok

SomeFailed(ps) == \E k \in 1..Len(ps) : ~ps[k].ok

\* The cycle of thread t delivered: not a first run, non-empty diff.
Delivering(t) == ~is_first_run[t] /\ diff_report[t] # << >>

\* C1: in a cycle that is not a first run and has a non-empty diff,
\* save_state is called only if every chunk succeeded; when a chunk failed
\* the persist step leaves the state file as it is, and after the cycle
\* load_state still returns the snapshot loaded at its start.
C1_PersistOnlyIfDelivered ==
    /\ [](\A t \in Threads :
            (pc[t] \in AfterMain /\ Delivering(t)) =>
                /\ saved[t] <=> AllOk(posts[t])
                /\ SomeFailed(posts[t]) =>
                      load_state(rne_state_json) = old_state[t])
    /\ [][\A t \in Threads :
            (pc[t] = "persist" /\ pc'[t] = "returned" /\ SomeFailed(posts[t]))
                => rne_state_json' = rne_state_json]_vars

C1_Witness ==
    \E t \in Threads :
        /\ pc[t] = "returned" /\ Delivering(t)
        /\ Len(posts[t]) >= 2
        /\ posts[t][1].ok /\ ~posts[t][2].ok
        /\ ~saved[t] /\ new_state[t] # old_state[t]

\* send_to_webhook has returned in the cycle of thread t.
Sent(t) == Delivering(t) /\ pc[t] \in {"persist", "returned", "finally"}

\* C2: send_to_webhook makes ceil(N/C) calls whatever fails, the chunks are
\* the consecutive slices of at most C reports of the diff report (each
\* report in exactly one chunk, in report order), and it returns true iff no
\* call failed.
C2_AllChunksAttempted ==
    \A t \in Threads :
        /\ (pc[t] = "send" \/ Sent(t)) =>
              /\ \A k \in 1..Len(posts[t]) :
                    /\ Len(posts[t][k].chunk) >= 1
                    /\ Len(posts[t][k].chunk) <= CHUNK_SIZE
              /\ PostedReports(posts[t]) =
                    SubSeq(diff_report[t], 1, Min(i[t], Len(diff_report[t])))
              /\ success_all[t] <=> AllOk(posts[t])
        /\ Sent(t) =>
              /\ Len(posts[t]) =
                    (Len(diff_report[t]) + CHUNK_SIZE - 1) \div CHUNK_SIZE
              /\ PostedReports(posts[t]) = diff_report[t]
              /\ \A a, b \in 1..Len(diff_report[t]) :
                    diff_report[t][a] = diff_report[t][b] => a = b
              /\ success[t] <=> AllOk(posts[t])

C2_Witness ==
    \E t \in Threads :
        /\ Sent(t) /\ pc[t] = "persist"
        /\ Len(posts[t]) = 3
        /\ ~posts[t][1].ok /\ posts[t][2].ok /\ ~posts[t][3].ok
        /\ Len(posts[t][3].chunk) < CHUNK_SIZE

\* C3: a cycle that loads an empty baseline and builds a non-empty snapshot
\* makes no delivery call, counts as successful and saves the new snapshot,
\* which is the baseline after the cycle.
C3_FirstRunSuppression ==
    \A t \in Threads :
        (is_first_run[t] /\ new_state[t] # EmptyState) =>
            /\ pc[t] \in {"persist", "returned", "finally"} =>
                  posts[t] = << >> /\ success[t]
            /\ pc[t] \in AfterMain =>
                  saved[t] /\ load_state(rne_state_json) = new_state[t]
            /\ pc[t] = "finally" =>
                  sync_status.last_status = StatusLabel(kind[t], "succès")

C3_Witness ==
    \E t \in Threads :
        /\ pc[t] = "finally" /\ is_first_run[t]
        /\ DOMAIN new_state[t] = 1..MaxCommunes
        /\ rne_state_json.exists

\* C4 as stated: when the diff is empty the cycle makes no delivery call and
\* the persisted baseline after the cycle equals the newly built snapshot.
C4_EmptyDiffPersists ==
    \A t \in Threads :
        (pc[t] = "returned" /\ diff_report[t] = << >>) =>
            /\ posts[t] = << >>
            /\ load_state(rne_state_json) = new_state[t]

\* C4 amended: when the diff is empty the cycle makes no delivery call and
\* does not call save_state; the persisted baseline stays the snapshot
\* loaded at the start of the cycle.
C4_EmptyDiffHolds ==
    \A t \in Threads :
        (pc[t] = "returned" /\ diff_report[t] = << >>) =>
            /\ posts[t] = << >>
            /\ ~saved[t]
            /\ load_state(rne_state_json) = old_state[t]

C4_Witness ==
    \E t \in Threads :
        /\ pc[t] = "returned" /\ diff_report[t] = << >>
        /\ new_state[t] # old_state[t]
        /\ load_state(rne_state_json) # new_state[t]

\* C5: no two executions of sync_main are in progress at the same time.
C5_AtMostOneCycle ==
    Cardinality({ t \in Threads : pc[t] \in MainPcs }) <= 1

\* Two requests were accepted, one task runs its cycle, the other is pending.
C5_Witness ==
    \E t, u \in Threads :
        /\ t # u
        /\ pc[t] \in MainPcs
        /\ pc[u] = "task"

CycleActive == \E u \in Threads : pc[u] \in MainPcs

\* C6: a trigger request handled while a cycle is active is answered 409 in
\* that step and schedules nothing; once rejected the thread only returns
\* to idle, so the request never starts a cycle.
C6_RejectedNotQueued ==
    /\ [][\A t \in Threads :
            (CycleActive /\ pc[t] = "idle" /\ pc'[t] # "idle") =>
                /\ pc'[t] = "rejected"
                /\ response'[t] = "409"
                /\ sync_status' = sync_status]_vars
    /\ [][\A t \in Threads :
            pc[t] = "rejected" => pc'[t] \in {"rejected", "idle"}]_vars

C6_Witness ==
    \E t \in Threads :
        /\ pc[t] = "rejected" /\ response[t] = "409"
        /\ CycleActive

\* C7: a task that set the flag eventually clears it, whether sync_main
\* returned or raised; the flag is set exactly while some task is between
\* setting and clearing it; a task that finds the flag set returns and
\* leaves it set.
C7_GuaranteedRelease ==
    /\ sync_status.is_running ~> ~sync_status.is_running
    /\ [](sync_status.is_running <=> \E t \in Threads : pc[t] \in HeldPcs)
    /\ [][\A t \in Threads :
            (pc[t] \in HeldPcs /\ pc'[t] = "idle") =>
                ~sync_status'.is_running]_vars
    /\ [][\A t \in Threads :
            (pc[t] = "task" /\ sync_status.is_running /\ pc'[t] # "task") =>
                /\ pc'[t] = "idle"
                /\ sync_status' = sync_status]_vars

\* The flag has been released after sync_main raised.
C7_Witness ==
    /\ ~sync_status.is_running
    /\ sync_status.last_status \in {"erreur", "erreur (batch)"}
    /\ \A t \in Threads : pc[t] \notin HeldPcs

FailureLabels == {"erreur", "erreur (batch)"}

\* C8 as stated: after a cycle in which a chunk failed, last_status is a
\* failure value.
C8_FailureReported ==
    \A t \in Threads :
        (pc[t] = "finally" /\ SomeFailed(posts[t])) =>
            sync_status.last_status \in FailureLabels

\* A successful webhook call of thread t is made in this step.
Accepted(t) ==
    /\ Len(posts'[t]) = Len(posts[t]) + 1
    /\ posts'[t][Len(posts'[t])].ok

\* C9 as stated: a report the webhook accepted is not delivered again while
\* the extracts are unchanged.
C9_ExactlyOnce ==
    [][\A t \in Threads :
        Accepted(t) =>
            Range(posts'[t][Len(posts'[t])].chunk) \cap delivered = {}]_vars

\* C9 amended: a report accepted in a cycle whose every chunk succeeded is
\* not delivered again while the extracts are unchanged (only the reports
\* of a cycle that had a failed chunk are delivered again).
C9_AtLeastOnce ==
    /\ [][\A t \in Threads :
            Accepted(t) =>
                Range(posts'[t][Len(posts'[t])].chunk) \cap committed = {}]_vars
    /\ [](committed \subseteq delivered)

\* A later cycle over unchanged extracts after a fully delivered one.
C9_Witness ==
    \E t \in Threads :
        /\ Cardinality(committed) > CHUNK_SIZE
        /\ pc[t] = "returned"
        /\ diff_report[t] = << >> /\ posts[t] = << >>
        /\ load_state(rne_state_json) = new_state[t]

\* C10: after a cycle whose delivery failed, the next cycle over the same
\* extracts computes the same diff report and attempts every chunk of it
\* again; a cycle that delivers every chunk saves the new snapshot (its
\* persist step enters save_state, which leaves the new snapshot in the file).
C10_RetryAcrossRuns ==
    /\ [](\A t \in Threads :
            prev.failed =>
                /\ pc[t] \in {"send", "persist", "returned"} =>
                      /\ diff_report[t] = prev.diff
                      /\ ~is_first_run[t]
                /\ pc[t] = "persist" =>
                      PostedReports(posts[t]) = prev.diff)
    /\ [][\A t \in Threads :
            (pc[t] = "persist" /\ pc'[t] # "persist" /\ Delivering(t)
                /\ AllOk(posts[t])) =>
                /\ pc'[t] = "saving"
                /\ ~prev'.failed]_vars
    /\ [][\A t \in Threads :
            (pc[t] = "saving" /\ pc'[t] # "saving") =>
                /\ pc'[t] = "returned"
                /\ rne_state_json' = save_state(new_state[t])]_vars

\* A retry in which an early chunk failed again and all were attempted.
C10_Witness ==
    \E t \in Threads :
        /\ prev.failed /\ pc[t] = "persist"
        /\ Len(posts[t]) = 3 /\ ~posts[t][1].ok /\ posts[t][3].ok

\* C11 as stated: save_state replaces the state file atomically, so a
\* load_state made by a lookup at any moment returns a whole snapshot (the
\* one before the save or the one being saved) and never fails on a file
\* that is empty or partly written.
C11_AtomicSave ==
    \A t \in Threads :
        pc[t] = "looked" => response[t] # "500"

\* C12: load_state returns the empty snapshot when there is no state file
\* and raises when the file cannot be decoded (the cycle does not go on
\* with an empty baseline); a cycle whose build, load or diff raised has
\* made no delivery call and no save, sets last_status to an error label
\* without touching the state file, and then clears is_running.
C12_LoadFailureAborts ==
    /\ [][\A t \in Threads :
            (pc[t] = "load" /\ pc'[t] # "load") =>
                IF Malformed(rne_state_json)
                THEN pc'[t] = "except"
                ELSE /\ pc'[t] # "except"
                     /\ rne_state_json.exists =>
                           old_state'[t] = rne_state_json.data
                     /\ ~rne_state_json.exists =>
                           old_state'[t] = EmptyState /\ is_first_run'[t]]_vars
    /\ [](\A t \in Threads :
            pc[t] = "except" =>
                posts[t] = << >> /\ ~saved[t] /\ sync_status.is_running)
    /\ [][\A t \in Threads :
            (pc[t] = "except" /\ pc'[t] # "except") =>
                /\ pc'[t] = "finally"
                /\ sync_status'.last_status \in FailureLabels
                /\ rne_state_json' = rne_state_json
                /\ posts'[t] = << >> /\ ~saved'[t]]_vars
    /\ [][\A t \in Threads :
            (pc[t] = "finally" /\ pc'[t] # "finally") =>
                /\ ~sync_status'.is_running
                /\ rne_state_json' = rne_state_json]_vars

\* The load of a cycle raised after its build succeeded; the error label is
\* set and the flag about to be cleared.
C12_Witness ==
    \E t \in Threads :
        /\ pc[t] = "finally"
        /\ new_state[t] # EmptyState
        /\ posts[t] = << >> /\ ~saved[t]
        /\ sync_status.last_status \in FailureLabels

\* The call of compute_diff has returned and had no filter.
FullDiffDone == diff_call.done /\ ~diff_call.insee_filter.given

\* The officials of commune c in a snapshot ({} when the commune is absent).
ElusOf(state, c) == IF c \in DOMAIN state THEN state[c].elus ELSE << >>

\* The entries of the result for the official key of commune c: positions
\* <<report, change>> whose elu is the name of that official.
EntriesFor(c, key) ==
    LET old_e == ElusOf(diff_call.old_state, c)
        new_e == ElusOf(diff_call.new_state, c)
        who == IF key \in DOMAIN new_e THEN new_e[key] ELSE old_e[key]
        res == diff_call.result
    IN  { pos \in (1..Len(res)) \X (1..2) :
            /\ res[pos[1]].commune_code_insee = c
            /\ pos[2] <= Len(res[pos[1]].changements)
            /\ res[pos[1]].changements[pos[2]].elu = << who.prenom, who.nom >> }

EntryAt(pos) == diff_call.result[pos[1]].changements[pos[2]]

\* seq lists the roles of the list postes once each, in alphabetical order.
SortedRendering(seq, postes) ==
    /\ Range(seq) = Range(postes)
    /\ \A a, b \in 1..Len(seq) :
          a < b => PosteRank(seq[a]) < PosteRank(seq[b])

\* C13: for every commune and official key, the result of compute_diff has
\* one NOUVEL_ELU entry ([] -> the new roles) when the key is only in new,
\* one ELU_SORTANT entry (the old roles -> []) when it is only in old, and
\* when it is in both one MODIFICATION_POSTE entry with both lists sorted if
\* the two role lists differ as sets, no entry otherwise.
C13_EntryPerKey ==
    FullDiffDone =>
        \A c \in DiffCodes :
            LET old_e == ElusOf(diff_call.old_state, c)
                new_e == ElusOf(diff_call.new_state, c)
            IN  \A key \in DOMAIN old_e \cup DOMAIN new_e :
                  LET entries == EntriesFor(c, key)
                  IN  IF key \notin DOMAIN old_e
                      THEN /\ Cardinality(entries) = 1
                           /\ \A pos \in entries :
                                 /\ EntryAt(pos).type_changement = "NOUVEL_ELU"
                                 /\ EntryAt(pos).anciens_postes = << >>
                                 /\ EntryAt(pos).nouveaux_postes = new_e[key].postes
                      ELSE IF key \notin DOMAIN new_e
                      THEN /\ Cardinality(entries) = 1
                           /\ \A pos \in entries :
                                 /\ EntryAt(pos).type_changement = "ELU_SORTANT"
                                 /\ EntryAt(pos).anciens_postes = old_e[key].postes
                                 /\ EntryAt(pos).nouveaux_postes = << >>
                      ELSE IF Range(old_e[key].postes) # Range(new_e[key].postes)
                      THEN /\ Cardinality(entries) = 1
                           /\ \A pos \in entries :
                                 /\ EntryAt(pos).type_changement = "MODIFICATION_POSTE"
                                 /\ SortedRendering(EntryAt(pos).anciens_postes,
                                                    old_e[key].postes)
                                 /\ SortedRendering(EntryAt(pos).nouveaux_postes,
                                                    new_e[key].postes)
                      ELSE entries = {}

\* One commune gained an official while another changed role (two entries),
\* and another commune only had the roles of its official reordered.
C13_Witness ==
    /\ FullDiffDone
    /\ \E c, d \in DiffCodes :
          /\ c # d
          /\ c \in DOMAIN diff_call.old_state \cap DOMAIN diff_call.new_state
          /\ d \in DOMAIN diff_call.old_state \cap DOMAIN diff_call.new_state
          /\ \E k \in 1..Len(diff_call.result) :
                /\ diff_call.result[k].commune_code_insee = c
                /\ Len(diff_call.result[k].changements) = 2
          /\ diff_call.old_state[d] # diff_call.new_state[d]
          /\ \A k \in 1..Len(diff_call.result) :
                diff_call.result[k].commune_code_insee # d

\* The official keys of commune c differ between the snapshots, or the role
\* set of an official in both differs.
CommuneChanged(c) ==
    LET old_e == ElusOf(diff_call.old_state, c)
        new_e == ElusOf(diff_call.new_state, c)
    IN  \/ DOMAIN old_e # DOMAIN new_e
        \/ \E key \in DOMAIN old_e \cap DOMAIN new_e :
              Range(old_e[key].postes) # Range(new_e[key].postes)

\* C14: a commune code has a report in compute_diff(old, new) iff its
\* official keys differ or a shared official's role set differs; every
\* report has a non-empty change list; no code has two reports; and
\* compute_diff(S, S) = [].
C14_EmptyReportSuppression ==
    FullDiffDone =>
        LET res == diff_call.result
        IN  /\ \A c \in DiffCodes :
                  (\E k \in 1..Len(res) : res[k].commune_code_insee = c)
                      <=> CommuneChanged(c)
            /\ \A k \in 1..Len(res) :
                  /\ res[k].changements # << >>
                  /\ res[k].commune_code_insee \in DiffCodes
            /\ \A a, b \in 1..Len(res) :
                  res[a].commune_code_insee = res[b].commune_code_insee => a = b
            /\ diff_call.old_state = diff_call.new_state => res = << >>

\* Snapshots that differ only by the order of roles: the result is empty.
C14_Witness ==
    /\ FullDiffDone
    /\ diff_call.old_state # diff_call.new_state
    /\ DOMAIN diff_call.old_state = DiffCodes
    /\ diff_call.result = << >>

\* C15 as stated: when a filter is given to compute_diff, the empty one
\* included, every report of the result has its code in the filter; with no
\* filter the codes are those of the two snapshots.
C15_FilterRestricts ==
    diff_call.done =>
        \A k \in 1..Len(diff_call.result) :
            LET code == diff_call.result[k].commune_code_insee
            IN  /\ code \in DOMAIN diff_call.old_state
                               \cup DOMAIN diff_call.new_state
                /\ diff_call.insee_filter.given =>
                      code \in diff_call.insee_filter.codes

\* The positions in parse_run.rows of the rows merged for commune c.
RowsOfCommune(c) ==
    { j \in 1..Len(parse_run.rows) : parse_run.rows[j].insee = c }

\* The positions of the rows merged for the official key of commune c.
RowsOfKey(c, key) ==
    { j \in RowsOfCommune(c) : parse_run.rows[j].elu_key = key }

\* The position of the first row that gave the poste to that official.
FirstSeen(c, key, poste) ==
    CHOOSE j \in RowsOfKey(c, key) :
        /\ parse_run.rows[j].poste = poste
        /\ \A h \in RowsOfKey(c, key) :
              parse_run.rows[h].poste = poste => j <= h

\* C16: after any number of process_file calls, every merged row has its
\* commune, its official and its role in the state; the roles list of an
\* official holds only roles some row gave to that key, none twice, in the
\* order of their first rows; a commune holds one official per key merged
\* for it; and the commune name is the one of the first row merged for
\* that code.
C16_MergeSemantics ==
    LET state == parse_run.state
        rows == parse_run.rows
    IN  /\ \A j \in 1..Len(rows) :
              /\ rows[j].insee \in DOMAIN state
              /\ rows[j].elu_key \in DOMAIN state[rows[j].insee].elus
              /\ rows[j].poste \in
                    Range(state[rows[j].insee].elus[rows[j].elu_key].postes)
        /\ \A c \in DOMAIN state :
              /\ RowsOfCommune(c) # {}
              /\ DOMAIN state[c].elus
                    = { rows[j].elu_key : j \in RowsOfCommune(c) }
              /\ \A j \in RowsOfCommune(c) :
                    (\A h \in RowsOfCommune(c) : j <= h) =>
                        state[c].nom_commune = rows[j].nom_commune
              /\ \A key \in DOMAIN state[c].elus :
                    LET postes == state[c].elus[key].postes
                    IN  /\ \A a \in 1..Len(postes) :
                              \E j \in RowsOfKey(c, key) :
                                  rows[j].poste = postes[a]
                        /\ \A a, b \in 1..Len(postes) :
                              a < b =>
                                  /\ postes[a] # postes[b]
                                  /\ FirstSeen(c, key, postes[a])
                                        < FirstSeen(c, key, postes[b])

\* The three extracts gave three roles to one official, the first of them
\* from a fonction column, and later rows named the commune otherwise.
C16_Witness ==
    /\ parse_run.done /\ ~parse_run.raised
    /\ "75056" \in DOMAIN parse_run.state
    /\ parse_run.state["75056"].nom_commune = "PARIS"
    /\ "DUPONT|Jean|01/01/1970" \in DOMAIN parse_run.state["75056"].elus
    /\ parse_run.state["75056"].elus["DUPONT|Jean|01/01/1970"].postes
          = << "Maire", "Conseiller municipal", "Conseiller d'arrondissement" >>
    /\ Len(parse_run.rows) >= 4

\* C17 as stated: a call of process_file on a file that is missing, has no
\* header row or lacks a mandatory column does not raise and leaves the
\* state as it is, and parse_all_rne_datasets goes on with the next file.
C17_SoftFailures ==
    [][(~parse_run.done /\ parse_run' # parse_run) =>
          LET file == parse_run.files[parse_run.next]
          IN  (~file.exists \/ ~file.has_header
                  \/ MissingColumns(file.fieldnames)) =>
                  /\ ~parse_run'.raised
                  /\ parse_run'.state = parse_run.state
                  /\ parse_run'.next = parse_run.next + 1]_vars

\* C18 as stated: a cycle with a non-empty diff skips delivery only when no
\* state file exists at its load; once a snapshot has been saved, whatever
\* its content, no later cycle takes the first-run branch.
C18_FirstRunOnlyWithoutBaseline ==
    [][\A t \in Threads :
        (pc[t] = "load" /\ pc'[t] = "persist") =>
            ~rne_state_json.exists]_vars

\* C19 as stated: no merge is between its load and the end of its save
\* while a cycle is between its load and the end of its save, and the
\* baseline a cycle replaces is the one it loaded.
C19_MergeExcludesCycle ==
    /\ [](\A t, u \in Threads :
            ~(/\ pc[t] \in {"send", "persist", "saving"}
              /\ pc[u] \in {"merge_save", "merge_dump"}))
    /\ [][\A t \in Threads :
            (pc[t] = "persist" /\ pc'[t] = "saving") =>
                load_state(rne_state_json) = old_state[t]]_vars

\* C20 as stated: the background task of an accepted request runs
\* sync_main; it never returns without starting a cycle.
C20_AcceptedRunsCycle ==
    [][\A t \in Threads :
        (pc[t] = "task" /\ pc'[t] # "task") => pc'[t] = "parse"]_vars

\* Since the extracts were last replaced a cycle has reached save_state
\* (first run or every chunk delivered), and no cycle is now in or past its
\* own save_state.
PersistedEarlier ==
    /\ ~prev.failed /\ prev.diff # << >>
    /\ \A t \in Threads : ~saved[t]

\* C21: once a cycle has saved the snapshot built from the extracts, every
\* further cycle over the same extracts computes an empty diff, makes no
\* delivery call and does not fail, and the state file stays a whole dump
\* of that snapshot.
C21_IdempotentRerun ==
    PersistedEarlier =>
        /\ data_rne.readable
        /\ ~Malformed(rne_state_json)
        /\ rne_state_json.exists
        /\ load_state(rne_state_json) = data_rne.roster
        /\ \A t \in Threads :
              /\ pc[t] \notin {"send", "persist", "saving", "except"}
              /\ diff_report[t] = << >>
              /\ posts[t] = << >>
              /\ pc[t] \in {"returned", "finally"} =>
                    /\ old_state[t] = new_state[t]
                    /\ new_state[t] = data_rne.roster

\* A further cycle over the largest extracts after the saving one: it has
\* returned with an empty diff.
C21_Witness ==
    /\ PersistedEarlier
    /\ \E t \in Threads :
          /\ pc[t] = "returned"
          /\ DOMAIN new_state[t] = 1..MaxCommunes
          /\ old_state[t] = new_state[t]
          /\ Len(prev.diff) = MaxCommunes

====
